---------------------------- MODULE Spec2Model ----------------------------
(***************************************************************************)
(* Stuff+ scoring service (backend/main.py, backend/modeling/              *)
(* aStuffPlusModel2.py): model loading, the /predict and /predict/suggest  *)
(* handlers and the pure pipeline they share (feature derivation, the      *)
(* regression scorer, calibration, the velocity penalty, the final clip).  *)
(*                                                                         *)
(* Number representation.  Python floats are modelled as fixed point:      *)
(*   - index values, penalties and velocities (mph) in hundredths          *)
(*     (Pt(93) is 93.00);                                                  *)
(*   - lengths in feet (pfx_x, pfx_z, release_pos_x, ...) in twelfths of a *)
(*     foot, so that inch_to_ft = 1/12 is the integer 1;                   *)
(*   - spin rate in rpm, spin axis in degrees, raw regression output in    *)
(*     integer "raw units".                                                *)
(* The calibration scales are powers of two no greater than 8 and the      *)
(* velocities are multiples of half a mph, so every index the model        *)
(* computes is a multiple of 0.25: such values are exact in binary         *)
(* floating point, and the fixed-point arithmetic below is exactly the     *)
(* arithmetic of the code on them (float rounding error is not modelled).  *)
(***************************************************************************)
EXTENDS Integers, Sequences, FiniteSets, TLC

VARIABLES
    started,          \* the startup hook (load_stuff_plus_model) has run
    model_college,    \* main.py global: the unpickled aStuffPlusModel, or None
    pc,               \* "idle" | "suggest_loop" | "responded"
    op,               \* "none" | "predict" | "suggest": the endpoint being served
    req,              \* the PitchRequest being served
    i,                \* suggest_improvement: index of the next variation (1..8)
    baseline,         \* suggest_improvement: baseline
    best_improvement, \* suggest_improvement: best_improvement
    best_suggestion,  \* suggest_improvement: best_suggestion ("None" = None)
    scores,           \* the scores run(...) returned in the loop so far
    trace,            \* internals of the last pipeline evaluation
    calls,            \* number of model.predict invocations for this request
    resp,             \* the HTTP response of the request
    other,            \* a /predict call served while another call is in progress
    alone,            \* history: the response each request got with no call in progress
    users,            \* table users, in insertion order
    profiles,         \* table profiles, in insertion order
    pitches,          \* table pitches
    issued,           \* number of pitch ids handed out so far
    sresp             \* the HTTP response of the last account or storage call

vars == <<started, model_college, pc, op, req, i, baseline, best_improvement,
          best_suggestion, scores, trace, calls, resp, other, alone, users,
          profiles, pitches, issued, sresp>>

\* the locals of a scoring call in progress
call_vars == <<pc, op, req, i, baseline, best_improvement, best_suggestion,
               scores, trace, calls, resp>>

\* the second call and its history
conc_vars == <<other, alone>>

\* the database and the last response of the account and storage endpoints
store_vars == <<users, profiles, pitches, issued, sresp>>

(***************************************************************************)
(* Fixed point helpers                                                     *)
(***************************************************************************)
\* n index points / mph in hundredths
Pt(n) == n * 100

Min(a, b) == IF a < b THEN a ELSE b
Max(a, b) == IF a > b THEN a ELSE b

\* np.clip(x, lo, hi)
Clip(x, lo, hi) == Min(Max(x, lo), hi)

\* round(x, 1) and format(x, ".1f") of a value given in hundredths: the result,
\* in hundredths, is a multiple of 10; an exact half goes to the even tenth.
RoundHalfEven1(x) ==
    LET q == x \div 10
        r == x % 10
    IN  IF r < 5 THEN q * 10
        ELSE IF r > 5 THEN (q + 1) * 10
        ELSE IF q % 2 = 0 THEN q * 10 ELSE (q + 1) * 10


\* n inches, in the unit of pfx_z * 12 (twelfths of an inch)
Inches(n) == n * 12

(***************************************************************************)
(* aStuffPlusModel (modeling/aStuffPlusModel2.py)                          *)
(***************************************************************************)
\* self.numeric_features: the order of the columns handed to the regressor
numeric_features ==
    << "release_speed", "pfx_z", "adj_hmov", "release_spin_rate", "adj_spin_axis",
       "release_extension", "release_pos_z", "adj_release_x", "velo_diff",
       "ivb_diff", "hmov_diff" >>

min_stuff == Pt(40)
max_stuff == Pt(160)

\* A faulty variant of feature_map: the left-handed normalisation is forgotten.
feature_map_unadjusted(m) ==
    [ release_speed     |-> m.release_speed,
      pfx_z             |-> m.pfx_z,
      adj_hmov          |-> m.pfx_x,
      release_spin_rate |-> m.release_spin_rate,
      adj_spin_axis     |-> m.spin_axis,
      release_extension |-> m.release_extension,
      release_pos_z     |-> m.release_pos_z,
      adj_release_x     |-> m.release_pos_x,
      velo_diff         |-> m.release_speed - m.fb_velo,
      ivb_diff          |-> m.pfx_z - m.fb_ivb,
      hmov_diff         |-> m.pfx_x - m.fb_hmov ]

\* predict_single_pitch, lines 83-102: the derived features of a measurement
feature_map(m) ==
    LET velo_diff     == m.release_speed - m.fb_velo
        ivb_diff      == m.pfx_z - m.fb_ivb
        hmov_diff     == m.pfx_x - m.fb_hmov
        adj_hmov      == IF m.p_throws = "L" THEN -m.pfx_x ELSE m.pfx_x
        adj_release_x == IF m.p_throws = "L" THEN -m.release_pos_x ELSE m.release_pos_x
        adj_spin_axis == IF m.p_throws = "L" THEN 360 - m.spin_axis ELSE m.spin_axis
    IN  [ release_speed     |-> m.release_speed,
          pfx_z             |-> m.pfx_z,
          adj_hmov          |-> adj_hmov,
          release_spin_rate |-> m.release_spin_rate,
          adj_spin_axis     |-> adj_spin_axis,
          release_extension |-> m.release_extension,
          release_pos_z     |-> m.release_pos_z,
          adj_release_x     |-> adj_release_x,
          velo_diff         |-> velo_diff,
          ivb_diff          |-> ivb_diff,
          hmov_diff         |-> hmov_diff ]

\* line 104: X_input, the features in the order of numeric_features
X_input(m) == [k \in 1..Len(numeric_features) |-> feature_map(m)[numeric_features[k]]]

\* self.model.predict(X_input)[0]: the regression scorer is an external, opaque,
\* deterministic function of the feature row.  It is stood in for by a family
\* of formulaic scorers over the columns velo_diff (9, whole mph), ivb_diff
\* (10, inches), adj_hmov (3, inches) and release_spin_rate (4, hundreds of
\* rpm around 2200); the result is in raw units.
model_predict(model, X) ==
    model.bias
      + model.w_velo * (X[9] \div 100)
      + model.w_ivb  * X[10]
      + model.w_hmov * X[3]
      + model.w_spin * ((X[4] - 2200) \div 100)

\* A faulty variant of the scaler lookup: the category's own entry is ignored.
scaler_for_global_only(mc, pitch_type) == mc.global_scaler

\* line 107: self.scalers.get(pitch_type, self.global_scaler).  scalers is the
\* set of the dict's entries; a scaler with none = TRUE is Python's None.
scaler_for(mc, pitch_type) ==
    IF \E e \in mc.scalers : e.key = pitch_type
    THEN LET e == CHOOSE e \in mc.scalers : e.key = pitch_type
         IN  [none |-> FALSE, mean_ |-> e.mean_, scale_ |-> e.scale_]
    ELSE mc.global_scaler

\* lines 108-110: scaled, stuff_plus and the clip to [min_stuff, max_stuff].
\* 1000 * (raw - mean) / scale is 10 * scaled in hundredths; it is exact for
\* the scales of the model (powers of two up to 8).
calibrate(scaler, raw_pred) ==
    LET stuff_plus == Pt(100) + (1000 * (raw_pred - scaler.mean_)) \div scaler.scale_
    IN  Clip(stuff_plus, min_stuff, max_stuff)

\* predict_single_pitch as a whole: err is str(e) of the exception raised (the
\* ValueError of line 81, or the AttributeError of line 108 on a None scaler;
\* "" = none),
\* invoked tells whether model.predict was reached, value is the return value.
predict_single_pitch(mc, m) ==
    IF mc.model.none
    THEN [err |-> "Model must be trained before making predictions",
          invoked |-> 0, raw_pred |-> 0, value |-> 0]
    ELSE LET raw_pred == model_predict(mc.model, X_input(m))
             scaler   == scaler_for(mc, m.pitch_type)
         IN  IF scaler.none
             THEN [err |-> "'NoneType' object has no attribute 'mean_'",
                   invoked |-> 1, raw_pred |-> raw_pred, value |-> 0]
             ELSE [err |-> "", invoked |-> 1, raw_pred |-> raw_pred,
                   value |-> calibrate(scaler, raw_pred)]

(***************************************************************************)
(* main.py: the velocity penalty and the pipeline                          *)
(***************************************************************************)
\* A faulty variant of velocity_penalty: the penalty is not capped at 30.
velocity_penalty_uncapped(pitch_type, avg_velo, pfx_z_inches, stuff_val) ==
    LET pt == IF pfx_z_inches > Inches(17) THEN "FF" ELSE pitch_type
        avg_mlb == IF pt \in {"FF", "SI"} THEN Pt(93)
                   ELSE IF pt \in {"CU", "KC", "ST"} THEN Pt(75)
                   ELSE IF pt \in {"SL", "FC"} THEN Pt(82)
                   ELSE Pt(78)
        known == pt \in {"FF", "SI", "CU", "KC", "ST", "SL", "FC", "CH", "SP", "FS"}
        penalty == IF known /\ avg_velo < avg_mlb THEN avg_mlb - avg_velo ELSE 0
        capped_stuff == IF pt \in {"FF", "SI"} /\ avg_velo < Pt(90)
                        THEN Min(stuff_val, Pt(105)) ELSE stuff_val
    IN  [adjusted |-> capped_stuff - penalty, penalty |-> penalty,
         capped_stuff |-> capped_stuff]

\* A faulty variant of velocity_penalty: the reclassification test is >= 17 inches.
velocity_penalty_ge17(pitch_type, avg_velo, pfx_z_inches, stuff_val) ==
    LET pt == IF pfx_z_inches >= Inches(17) THEN "FF" ELSE pitch_type
        avg_mlb == IF pt \in {"FF", "SI"} THEN Pt(93)
                   ELSE IF pt \in {"CU", "KC", "ST"} THEN Pt(75)
                   ELSE IF pt \in {"SL", "FC"} THEN Pt(82)
                   ELSE Pt(78)
        known == pt \in {"FF", "SI", "CU", "KC", "ST", "SL", "FC", "CH", "SP", "FS"}
        penalty0 == IF known /\ avg_velo < avg_mlb THEN avg_mlb - avg_velo ELSE 0
        capped_stuff == IF pt \in {"FF", "SI"} /\ avg_velo < Pt(90)
                        THEN Min(stuff_val, Pt(105)) ELSE stuff_val
        penalty == Min(Pt(30), penalty0)
    IN  [adjusted |-> capped_stuff - penalty, penalty |-> penalty,
         capped_stuff |-> capped_stuff]

\* A faulty variant of velocity_penalty: the 105 cap is applied below 93 instead of 90.
velocity_penalty_cap93(pitch_type, avg_velo, pfx_z_inches, stuff_val) ==
    LET pt == IF pfx_z_inches > Inches(17) THEN "FF" ELSE pitch_type
        avg_mlb == IF pt \in {"FF", "SI"} THEN Pt(93)
                   ELSE IF pt \in {"CU", "KC", "ST"} THEN Pt(75)
                   ELSE IF pt \in {"SL", "FC"} THEN Pt(82)
                   ELSE Pt(78)
        known == pt \in {"FF", "SI", "CU", "KC", "ST", "SL", "FC", "CH", "SP", "FS"}
        penalty0 == IF known /\ avg_velo < avg_mlb THEN avg_mlb - avg_velo ELSE 0
        capped_stuff == IF pt \in {"FF", "SI"} /\ avg_velo < Pt(93)
                        THEN Min(stuff_val, Pt(105)) ELSE stuff_val
        penalty == Min(Pt(30), penalty0)
    IN  [adjusted |-> capped_stuff - penalty, penalty |-> penalty,
         capped_stuff |-> capped_stuff]

\* velocity_penalty, lines 244-269.  Returns the tuple (capped_stuff - penalty,
\* penalty); capped_stuff is kept beside it for the properties.
velocity_penalty(pitch_type, avg_velo, pfx_z_inches, stuff_val) ==
    LET pt == IF pfx_z_inches > Inches(17) THEN "FF" ELSE pitch_type
        fastball_types == {"FF", "SI"}
        penalty0 ==
            IF pt \in fastball_types
            THEN (IF avg_velo < Pt(93) THEN Pt(93) - avg_velo ELSE 0)
            ELSE IF pt \in {"CU", "KC", "ST"}
            THEN (IF avg_velo < Pt(75) THEN Pt(75) - avg_velo ELSE 0)
            ELSE IF pt \in {"SL", "FC"}
            THEN (IF avg_velo < Pt(82) THEN Pt(82) - avg_velo ELSE 0)
            ELSE IF pt \in {"CH", "SP", "FS"}
            THEN (IF avg_velo < Pt(78) THEN Pt(78) - avg_velo ELSE 0)
            ELSE 0
        capped_stuff ==
            IF pt \in fastball_types /\ avg_velo < Pt(90)
            THEN Min(stuff_val, Pt(105)) ELSE stuff_val
        penalty == Min(Pt(30), penalty0)
    IN  [adjusted |-> capped_stuff - penalty, penalty |-> penalty,
         capped_stuff |-> capped_stuff]

\* A faulty variant of final_clip: the ceiling is forgotten.
final_clip_floor_only(adjusted_stuff) == Max(adjusted_stuff, Pt(60))

\* float(np.clip(adjusted_stuff, 60, 140)), lines 572 and 619
final_clip(adjusted_stuff) == Clip(adjusted_stuff, Pt(60), Pt(140))

\* The internals of one pipeline evaluation (predict_single_pitch, then
\* velocity_penalty on pfx_z * 12, then the final clip): lines 553-572 and
\* 600-619.
NoTrace ==
    [ran |-> FALSE, err |-> "", invoked |-> 0, pitch_type |-> "", release_speed |-> 0,
     pfx_z |-> 0, raw_pred |-> 0, raw_stuff |-> 0, capped_stuff |-> 0, penalty |-> 0,
     adjusted_stuff |-> 0, final_stuff |-> 0]

\* A faulty variant of pipeline: the release speed is read from the request of
\* the suggestion call in progress, as if base were a module-level variable.
pipeline_shared_base(mc, m) ==
    LET b == IF pc = "suggest_loop"
             THEN [m EXCEPT !.release_speed = req.release_speed]
             ELSE m
        p == predict_single_pitch(mc, b)
        pfx_z_inches == b.pfx_z * 12
        vp == velocity_penalty(b.pitch_type, b.release_speed, pfx_z_inches, p.value)
    IN  IF p.err # ""
        THEN [NoTrace EXCEPT !.ran = TRUE, !.err = p.err, !.invoked = p.invoked,
                             !.pitch_type = b.pitch_type,
                             !.release_speed = b.release_speed, !.pfx_z = b.pfx_z,
                             !.raw_pred = p.raw_pred]
        ELSE [ran |-> TRUE, err |-> "", invoked |-> p.invoked,
              pitch_type |-> b.pitch_type,
              release_speed |-> b.release_speed, pfx_z |-> b.pfx_z,
              raw_pred |-> p.raw_pred, raw_stuff |-> p.value,
              capped_stuff |-> vp.capped_stuff, penalty |-> vp.penalty,
              adjusted_stuff |-> vp.adjusted,
              final_stuff |-> final_clip(vp.adjusted)]

pipeline(mc, m) ==
    LET p == predict_single_pitch(mc, m)
        pfx_z_inches == m.pfx_z * 12
        vp == velocity_penalty(m.pitch_type, m.release_speed, pfx_z_inches, p.value)
    IN  IF p.err # ""
        THEN [NoTrace EXCEPT !.ran = TRUE, !.err = p.err, !.invoked = p.invoked,
                             !.pitch_type = m.pitch_type,
                             !.release_speed = m.release_speed, !.pfx_z = m.pfx_z,
                             !.raw_pred = p.raw_pred]
        ELSE [ran |-> TRUE, err |-> "", invoked |-> p.invoked,
              pitch_type |-> m.pitch_type,
              release_speed |-> m.release_speed, pfx_z |-> m.pfx_z,
              raw_pred |-> p.raw_pred, raw_stuff |-> p.value,
              capped_stuff |-> vp.capped_stuff, penalty |-> vp.penalty,
              adjusted_stuff |-> vp.adjusted,
              final_stuff |-> final_clip(vp.adjusted)]

\* _run_prediction, lines 582-619: 0.0 when no model object is loaded, else the
\* pipeline's final value (or its exception).
run_prediction(mc, m) ==
    IF mc.none
    THEN [NoTrace EXCEPT !.final_stuff = 0]
    ELSE pipeline(mc, m)

(***************************************************************************)
(* main.py: the /predict and /predict/suggest handlers                     *)
(***************************************************************************)
valid_types == {"FF", "SI", "FC", "SL", "CU", "CH", "ST", "FS", "KC"}

NoResp ==
    [status |-> 0, detail |-> "", cause |-> "", stuff_plus |-> 0, stuff_plus_raw |-> 0,
     velocity_penalty |-> 0, class |-> "", label |-> "", delta |-> 0]

HTTPException(status_code, detail) ==
    [NoResp EXCEPT !.status = status_code, !.detail = detail]

\* A faulty variant of validate: an unknown hand is let through (treated as right-handed
\* by the feature derivation).
validate_hand_defaulted(mc, pr) ==
    IF mc.none THEN HTTPException(503, "Stuff+ model not loaded")
    ELSE IF pr.pitch_type \notin valid_types
    THEN HTTPException(400, "Invalid pitch type")
    ELSE NoResp

\* lines 545-551 of predict_stuff_plus, repeated as lines 626-632 of
\* suggest_improvement: the checks before the pipeline.  NoResp = all passed.
validate(mc, pr) ==
    IF mc.none THEN HTTPException(503, "Stuff+ model not loaded")
    ELSE IF pr.pitch_type \notin valid_types
    THEN HTTPException(400, "Invalid pitch type")
    ELSE IF pr.p_throws \notin {"R", "L"}
    THEN HTTPException(400, "p_throws must be 'R' or 'L'")
    ELSE NoResp

\* A faulty variant of predict_response: the penalty that was subtracted is
\* reported.
predict_response_with_penalty(t) ==
    IF t.err # ""
    THEN [HTTPException(500, "Prediction failed: ") EXCEPT !.cause = t.err]
    ELSE [NoResp EXCEPT !.status = 200,
                        !.stuff_plus = RoundHalfEven1(t.final_stuff),
                        !.stuff_plus_raw = RoundHalfEven1(t.final_stuff),
                        !.velocity_penalty = t.penalty]

\* lines 572-579: the PitchResponse built from the pipeline's outcome, or the
\* HTTPException(500) the except clause turns any exception into; its detail is
\* "Prediction failed: " followed by str(e), kept in cause.
predict_response(t) ==
    IF t.err # ""
    THEN [HTTPException(500, "Prediction failed: ") EXCEPT !.cause = t.err]
    ELSE [NoResp EXCEPT !.status = 200,
                        !.stuff_plus = RoundHalfEven1(t.final_stuff),
                        !.stuff_plus_raw = RoundHalfEven1(t.final_stuff),
                        !.velocity_penalty = 0]

\* line 635: inch_to_ft = 1.0 / 12.0, in twelfths of a foot
inch_to_ft == 1

\* lines 654-663: the catalog, in order
variations ==
    << [mod_speed |-> Pt(1),  mod_pfx_x |-> 0, mod_pfx_z |-> 0, mod_spin |-> 0,
        label |-> "adding 1 mph"],
       [mod_speed |-> 0, mod_pfx_x |-> 0, mod_pfx_z |-> inch_to_ft, mod_spin |-> 0,
        label |-> "adding 1in IVB"],
       [mod_speed |-> 0, mod_pfx_x |-> 0, mod_pfx_z |-> -inch_to_ft, mod_spin |-> 0,
        label |-> "subtracting 1in IVB"],
       [mod_speed |-> 0, mod_pfx_x |-> inch_to_ft, mod_pfx_z |-> 0, mod_spin |-> 0,
        label |-> "adding 1in HB"],
       [mod_speed |-> 0, mod_pfx_x |-> -inch_to_ft, mod_pfx_z |-> 0, mod_spin |-> 0,
        label |-> "subtracting 1in HB"],
       [mod_speed |-> -Pt(1), mod_pfx_x |-> 0, mod_pfx_z |-> 0, mod_spin |-> 0,
        label |-> "subtracting 1 mph"],
       [mod_speed |-> 0, mod_pfx_x |-> 0, mod_pfx_z |-> 0, mod_spin |-> 100,
        label |-> "adding 100 rpm spin"],
       [mod_speed |-> 0, mod_pfx_x |-> 0, mod_pfx_z |-> 0, mod_spin |-> -100,
        label |-> "subtracting 100 rpm spin"] >>

NoVariation ==
    [mod_speed |-> 0, mod_pfx_x |-> 0, mod_pfx_z |-> 0, mod_spin |-> 0, label |-> ""]

\* A faulty variant of perturbed: the vertical-break change is applied to the
\* fastball reference fb_ivb instead of pfx_z.
perturbed_reference(base, v) ==
    [base EXCEPT !.release_speed = base.release_speed + v.mod_speed,
                 !.pfx_x = base.pfx_x + v.mod_pfx_x,
                 !.fb_ivb = base.fb_ivb + v.mod_pfx_z,
                 !.release_spin_rate = base.release_spin_rate + v.mod_spin]

\* lines 637-652: the measurement run(...) hands to _run_prediction
perturbed(base, v) ==
    [base EXCEPT !.release_speed = base.release_speed + v.mod_speed,
                 !.pfx_x = base.pfx_x + v.mod_pfx_x,
                 !.pfx_z = base.pfx_z + v.mod_pfx_z,
                 !.release_spin_rate = base.release_spin_rate + v.mod_spin]

\* A faulty variant of loop_update: a tie replaces the earlier perturbation.
loop_update_ties_later(bi, bs, score, base_score, label) ==
    LET improvement == score - base_score
    IN  IF improvement >= bi /\ improvement > 0
        THEN [best_improvement |-> improvement, best_suggestion |-> label]
        ELSE [best_improvement |-> bi, best_suggestion |-> bs]

\* A faulty variant of loop_update: the comparison is >=, so a perturbation that
\* changes nothing is taken as the best one.
loop_update_not_strict(bi, bs, score, base_score, label) ==
    LET improvement == score - base_score
    IN  IF improvement >= bi
        THEN [best_improvement |-> improvement, best_suggestion |-> label]
        ELSE [best_improvement |-> bi, best_suggestion |-> bs]

\* lines 671-674: one pass of the loop body after run(...)
loop_update(bi, bs, score, base_score, label) ==
    LET improvement == score - base_score
    IN  IF improvement > bi
        THEN [best_improvement |-> improvement, best_suggestion |-> label]
        ELSE [best_improvement |-> bi, best_suggestion |-> bs]

\* Python truthiness of best_suggestion ("None" stands for None)
Truthy(str) == str # "None" /\ str # ""

\* A faulty variant of suggestion_response: without a label the "near optimal" text is
\* sent.
suggestion_response_near_optimal(bs, bi) ==
    IF Truthy(bs) /\ bi > 0
    THEN [NoResp EXCEPT !.status = 200, !.class = "try", !.label = bs,
                        !.delta = RoundHalfEven1(bi)]
    ELSE [NoResp EXCEPT !.status = 200, !.class = "near_optimal", !.label = bs]

\* lines 676-683: the message.  class names which of the three texts is sent;
\* delta is the number printed by {best_improvement:.1f}.
suggestion_response(bs, bi) ==
    IF Truthy(bs) /\ bi > 0
    THEN [NoResp EXCEPT !.status = 200, !.class = "try", !.label = bs,
                        !.delta = RoundHalfEven1(bi)]
    ELSE IF Truthy(bs)
    THEN [NoResp EXCEPT !.status = 200, !.class = "near_optimal", !.label = bs]
    ELSE [NoResp EXCEPT !.status = 200, !.class = "looks_strong"]

\* An exception no handler catches: the framework answers 500.
UnhandledException == HTTPException(500, "Internal Server Error")

(***************************************************************************)
(* Bounds of the model                                                     *)
(***************************************************************************)
\* the regression stand-ins have a bias of -MaxBias, 0 or MaxBias raw units
MaxBias == 8

\* the weights (bias aside) of the regression stand-ins
Weights ==
    { [w_velo |-> 0, w_ivb |-> 0, w_hmov |-> 0, w_spin |-> 0],
      [w_velo |-> 1, w_ivb |-> 1, w_hmov |-> 0, w_spin |-> 0],
      [w_velo |-> 0, w_ivb |-> 1, w_hmov |-> 1, w_spin |-> 0],
      [w_velo |-> 0, w_ivb |-> -1, w_hmov |-> 0, w_spin |-> -1] }

Models ==
    { [none |-> FALSE, bias |-> b, w_velo |-> w.w_velo, w_ivb |-> w.w_ivb,
       w_hmov |-> w.w_hmov, w_spin |-> w.w_spin] :
         b \in {-MaxBias, 0, MaxBias}, w \in Weights }

NoModel ==
    [none |-> TRUE, bias |-> 0, w_velo |-> 0, w_ivb |-> 0, w_hmov |-> 0, w_spin |-> 0]

NoScaler == [none |-> TRUE, mean_ |-> 0, scale_ |-> 1]

\* the calibration profiles a model artifact may carry: (scalers, global_scaler)
Profiles ==
    { [scalers |-> {},
       global_scaler |-> [none |-> FALSE, mean_ |-> 0, scale_ |-> 1]],
      [scalers |-> { [key |-> "FF", mean_ |-> 0, scale_ |-> 8],
                     [key |-> "CU", mean_ |-> 2, scale_ |-> 4] },
       global_scaler |-> [none |-> FALSE, mean_ |-> 1, scale_ |-> 2]],
      [scalers |-> { [key |-> "FF", mean_ |-> 0, scale_ |-> 1] },
       global_scaler |-> NoScaler] }

\* model_college is None
NoObject == [none |-> TRUE, model |-> NoModel, scalers |-> {}, global_scaler |-> NoScaler]

\* the objects dill.load may return: a trained model with a profile, or an
\* object whose model attribute is None
Pickles ==
    { [none |-> FALSE, model |-> md, scalers |-> p.scalers,
       global_scaler |-> p.global_scaler] : md \in Models, p \in Profiles }
    \cup
    { [none |-> FALSE, model |-> NoModel, scalers |-> p.scalers,
       global_scaler |-> p.global_scaler] : p \in {CHOOSE q \in Profiles : q.scalers = {}} }

\* the requests of the model
PitchTypes == valid_types \cup {"XX"}
Hands == {"R", "L", "S"}
Speeds == {Pt(62), Pt(74), Pt(77), Pt(81), Pt(88), 8950, Pt(90), Pt(92), Pt(93), Pt(95)}
PfxZs == {16, 17, 18}

NoRequest ==
    [pitch_type |-> "", release_speed |-> 0, pfx_x |-> 0, pfx_z |-> 0,
     release_extension |-> 0, release_spin_rate |-> 0, spin_axis |-> 0,
     release_pos_x |-> 0, release_pos_z |-> 0, p_throws |-> "",
     fb_velo |-> 0, fb_ivb |-> 0, fb_hmov |-> 0]

Requests ==
    { [pitch_type |-> t, release_speed |-> v, pfx_x |-> -6, pfx_z |-> z,
       release_extension |-> 78, release_spin_rate |-> 2200, spin_axis |-> 210,
       release_pos_x |-> -24, release_pos_z |-> 70, p_throws |-> h,
       fb_velo |-> Pt(90), fb_ivb |-> 16, fb_hmov |-> -8] :
         t \in PitchTypes, v \in Speeds, z \in PfxZs, h \in Hands }

\* the requests of the runs in which calls overlap: a fastball, a sinker below
\* the fastball's speed and an unknown category
ConcRequests ==
    { m \in Requests :
         /\ m.p_throws = "R" /\ m.pfx_z = 17
         /\ <<m.pitch_type, m.release_speed>> \in
                {<<"FF", Pt(92)>>, <<"SI", Pt(88)>>, <<"XX", Pt(88)>>} }

\* no second call has been served yet
NoOther == [req |-> NoRequest, resp |-> NoResp, during |-> "none"]

\* no account or storage call has been served yet; 0 stands for None / NULL
NoStoreResp ==
    [op |-> "none", caller |-> 0, arg |-> 0, status |-> 0, detail |-> "",
     cause |-> "", id |-> 0, profile_id |-> 0, default_profile_id |-> 0,
     account_type |-> ""]

(***************************************************************************)
(* The state machine                                                       *)
(***************************************************************************)
Init ==
    /\ started = FALSE
    /\ model_college = NoObject
    /\ pc = "idle"
    /\ op = "none"
    /\ req = NoRequest
    /\ i = 0
    /\ baseline = 0
    /\ best_improvement = 0
    /\ best_suggestion = "None"
    /\ scores = << >>
    /\ trace = NoTrace
    /\ calls = 0
    /\ resp = NoResp
    /\ other = NoOther
    /\ alone = [m \in ConcRequests |-> NoResp]
    /\ users = << >>
    /\ profiles = << >>
    /\ pitches = {}
    /\ issued = 0
    /\ sresp = NoStoreResp

\* startup (line 376) -> load_stuff_plus_model, lines 228-241: the model file is
\* missing (model_college stays None) or is unpickled.
load_stuff_plus_model ==
    /\ ~started
    /\ started' = TRUE
    /\ \/ model_college' = model_college
       \/ \E obj \in Pickles : model_college' = obj
    /\ UNCHANGED <<pc, op, req, i, baseline, best_improvement, best_suggestion,
                   scores, trace, calls, resp>>
    /\ UNCHANGED <<conc_vars, store_vars>>

\* POST /predict, lines 544-579, as a whole
predict_stuff_plus(pitch_request) ==
    /\ op' = "predict"
    /\ req' = pitch_request
    /\ pc' = "responded"
    /\ LET rejected == validate(model_college, pitch_request)
           t == pipeline(model_college, pitch_request)
       IN  IF rejected.status # 0
           THEN /\ resp' = rejected
                /\ trace' = NoTrace
                /\ calls' = 0
           ELSE /\ resp' = predict_response(t)
                /\ trace' = t
                /\ calls' = t.invoked
    /\ UNCHANGED <<started, model_college, i, baseline, best_improvement,
                   best_suggestion, scores>>
    /\ UNCHANGED <<conc_vars, store_vars>>

\* POST /predict/suggest, lines 624-665: the checks and baseline = run().  An
\* exception of the pipeline is caught by nothing in the handler.
suggest_start(pitch_request) ==
    /\ op' = "suggest"
    /\ req' = pitch_request
    /\ LET rejected == validate(model_college, pitch_request)
           t == run_prediction(model_college, perturbed(pitch_request, NoVariation))
       IN  IF rejected.status # 0
           THEN /\ resp' = rejected
                /\ pc' = "responded"
                /\ trace' = NoTrace
                /\ calls' = 0
                /\ UNCHANGED <<i, baseline, best_improvement, best_suggestion>>
           ELSE IF t.err # ""
           THEN /\ resp' = [UnhandledException EXCEPT !.cause = t.err]
                /\ pc' = "responded"
                /\ trace' = t
                /\ calls' = t.invoked
                /\ UNCHANGED <<i, baseline, best_improvement, best_suggestion>>
           ELSE /\ resp' = NoResp
                /\ pc' = "suggest_loop"
                /\ trace' = t
                /\ calls' = t.invoked
                /\ i' = 1
                /\ baseline' = t.final_stuff
                /\ best_improvement' = 0
                /\ best_suggestion' = "None"
    /\ scores' = << >>
    /\ UNCHANGED <<started, model_college>>
    /\ UNCHANGED <<conc_vars, store_vars>>

\* lines 669-674: one iteration of the loop over variations
suggest_step ==
    /\ pc = "suggest_loop" /\ i <= Len(variations)
    /\ LET v == variations[i]
           t == run_prediction(model_college, perturbed(req, v))
           u == loop_update(best_improvement, best_suggestion, t.final_stuff,
                            baseline, v.label)
       IN  IF t.err # ""
           THEN /\ resp' = [UnhandledException EXCEPT !.cause = t.err]
                /\ pc' = "responded"
                /\ UNCHANGED <<i, best_improvement, best_suggestion, scores>>
                /\ trace' = t
                /\ calls' = calls + t.invoked
           ELSE /\ best_improvement' = u.best_improvement
                /\ best_suggestion' = u.best_suggestion
                /\ scores' = Append(scores, t.final_stuff)
                /\ i' = i + 1
                /\ trace' = t
                /\ calls' = calls + t.invoked
                /\ UNCHANGED <<pc, resp>>
    /\ UNCHANGED <<started, model_college, op, req, baseline>>
    /\ UNCHANGED <<conc_vars, store_vars>>

\* lines 676-683: the message, after the loop
suggest_finish ==
    /\ pc = "suggest_loop" /\ i > Len(variations)
    /\ resp' = suggestion_response(best_suggestion, best_improvement)
    /\ pc' = "responded"
    /\ UNCHANGED <<started, model_college, op, req, i, baseline, best_improvement,
                   best_suggestion, scores, trace, calls>>
    /\ UNCHANGED <<conc_vars, store_vars>>

\* The response leaves; the handler's locals are gone.
respond ==
    /\ pc = "responded"
    /\ pc' = "idle"
    /\ op' = "none"
    /\ req' = NoRequest
    /\ i' = 0
    /\ baseline' = 0
    /\ best_improvement' = 0
    /\ best_suggestion' = "None"
    /\ scores' = << >>
    /\ trace' = NoTrace
    /\ calls' = 0
    /\ resp' = NoResp
    /\ UNCHANGED <<started, model_college>>
    /\ UNCHANGED <<conc_vars, store_vars>>

\* a request arrives only once startup is over and the worker is free
Predict ==
    /\ started /\ pc = "idle"
    /\ \E pitch_request \in Requests : predict_stuff_plus(pitch_request)

SuggestStart ==
    /\ started /\ pc = "idle"
    /\ \E pitch_request \in Requests : suggest_start(pitch_request)

Next ==
    \/ load_stuff_plus_model
    \/ Predict
    \/ SuggestStart
    \/ suggest_step
    \/ suggest_finish
    \/ respond

Spec == Init /\ [][Next]_vars

(***************************************************************************)
(* Overlapping calls.  The handlers are coroutines without an await, so    *)
(* the event loop runs each to its end; the runs below allow more: a       *)
(* /predict call may be served between any two steps of a /predict/suggest *)
(* call, as it could be with threads or a finer scheduler.                 *)
(***************************************************************************)
\* POST /predict, lines 544-579, as a whole, served for a second caller with
\* locals of its own.  alone records the response when no call is in progress.
concurrent_predict(pitch_request) ==
    /\ LET rejected == validate(model_college, pitch_request)
           t == pipeline(model_college, pitch_request)
           r == IF rejected.status # 0 THEN rejected ELSE predict_response(t)
       IN  /\ other' = [req |-> pitch_request, resp |-> r, during |-> pc]
           /\ alone' = IF pc = "idle"
                       THEN [alone EXCEPT ![pitch_request] = r]
                       ELSE alone
    /\ UNCHANGED <<started, model_college, call_vars, store_vars>>

ConcurrentPredict ==
    /\ started
    /\ \E pitch_request \in ConcRequests : concurrent_predict(pitch_request)

ConcSuggestStart ==
    /\ started /\ pc = "idle"
    /\ \E pitch_request \in ConcRequests : suggest_start(pitch_request)

NextConc ==
    \/ load_stuff_plus_model
    \/ ConcSuggestStart
    \/ suggest_step
    \/ suggest_finish
    \/ respond
    \/ ConcurrentPredict

SpecConc == Init /\ [][NextConc]_vars

(***************************************************************************)
(* Accounts, profiles and pitch storage (sqlite).  Row ids are uuid4       *)
(* strings in the code; here a row's id is its insertion number and 0      *)
(* stands for None / NULL.  created_at is a clock reading: a later insert  *)
(* has a later one.  Callers of the endpoints behind verify_token are the  *)
(* users a token was issued to, that is the rows of users.                 *)
(***************************************************************************)
MaxProfiles == 2
MaxPitches == 2

\* str.lower() on the strings the requests carry
lower(str) ==
    CASE str = "A@x"  -> "a@x"
      [] str = "Team" -> "team"
      [] OTHER        -> str

\* len(req.password)
len(password) == IF password = "abc" THEN 3 ELSE 7

\* '"@" in req.email'
has_at(email) == email \in {"a@x", "A@x", "b@x"}

SignupRequests ==
    [email : {"a@x", "A@x", "b@x", "nomail"}, password : {"secret1", "abc"},
     account_type : {"", "personal", "Team", "club"}]

LoginRequests == [email : {"a@x", "A@x", "b@x"}, password : {"secret1", "wrong12"}]

\* SELECT ... FROM users WHERE email = ?  (0 when there is no row)
user_by_email(us, email) ==
    IF \E k \in 1..Len(us) : us[k].email = email
    THEN CHOOSE k \in 1..Len(us) : us[k].email = email
    ELSE 0

\* SELECT id FROM profiles WHERE user_id = ? ORDER BY created_at ASC LIMIT 1
first_profile(ps, user_id) ==
    LET own == {k \in 1..Len(ps) : ps[k].user_id = user_id}
    IN  IF own = {} THEN 0
        ELSE ps[CHOOSE k \in own :
                   \A j \in own : ps[k].created_at <= ps[j].created_at].id

\* INSERT INTO profiles (id, user_id, name, created_at)
insert_profile(ps, user_id) ==
    Append(ps, [id |-> Len(ps) + 1, user_id |-> user_id, created_at |-> Len(ps) + 1])

\* get_db, lines 186-189: leaving the with block closes the connection
conn_after_with == "closed"

\* conn.execute(...).fetchone(): sqlite3 raises ProgrammingError on a closed
\* connection
execute(conn, row) ==
    IF conn = "closed"
    THEN [err |-> "Cannot operate on a closed database.", row |-> 0]
    ELSE [err |-> "", row |-> row]

StoreResp(name, caller, arg, status, detail) ==
    [NoStoreResp EXCEPT !.op = name, !.caller = caller, !.arg = arg,
                        !.status = status, !.detail = detail]

\* startup_event, lines 376-379, with no model file: init_db creates the tables
\* if they are missing and migrate_db (lines 141-179) gives every user without a
\* profile a profile, makes the account personal and moves the user's pitches
\* to that profile.
migrate_users(us, ps) ==
    [k \in 1..Len(us) |->
        IF first_profile(ps, us[k].id) = 0
        THEN [us[k] EXCEPT !.account_type = "personal"]
        ELSE us[k]]

RECURSIVE migrate_profiles(_, _, _)
migrate_profiles(us, ps, k) ==
    IF k > Len(us) THEN ps
    ELSE IF first_profile(ps, us[k].id) = 0
    THEN migrate_profiles(us, insert_profile(ps, us[k].id), k + 1)
    ELSE migrate_profiles(us, ps, k + 1)

migrate_pitches(ps, migrated, pts) ==
    { IF first_profile(ps, pt.user_id) = 0
      THEN [pt EXCEPT !.profile_id = first_profile(migrated, pt.user_id)]
      ELSE pt : pt \in pts }

startup_event ==
    /\ Len(migrate_profiles(users, profiles, 1)) <= MaxProfiles
    /\ started' = TRUE
    /\ model_college' = NoObject
    /\ users' = migrate_users(users, profiles)
    /\ profiles' = migrate_profiles(users, profiles, 1)
    /\ pitches' = migrate_pitches(profiles, profiles', pitches)
    /\ sresp' = NoStoreResp
    /\ UNCHANGED <<issued, call_vars, conc_vars>>

\* POST /auth/signup, lines 395-432
signup(r) ==
    LET account_type == IF lower(r.account_type) \in {"personal", "team"}
                        THEN lower(r.account_type) ELSE "personal"
        user_id == Len(users) + 1
        email == lower(r.email)
    IN  IF len(r.password) < 6
        THEN /\ sresp' = StoreResp("signup", 0, 0, 400,
                                   "Password must be at least 6 characters")
             /\ UNCHANGED <<users, profiles>>
        ELSE IF r.email = "" \/ ~has_at(r.email)
        THEN /\ sresp' = StoreResp("signup", 0, 0, 400, "Invalid email address")
             /\ UNCHANGED <<users, profiles>>
        ELSE IF user_by_email(users, email) # 0
        THEN /\ sresp' = StoreResp("signup", 0, 0, 409,
                                   "An account with this email already exists")
             /\ UNCHANGED <<users, profiles>>
        ELSE /\ users' = Append(users, [id |-> user_id, email |-> email,
                                        password |-> r.password,
                                        account_type |-> account_type])
             /\ profiles' = IF account_type = "personal"
                            THEN insert_profile(profiles, user_id)
                            ELSE profiles
             /\ sresp' = [StoreResp("signup", user_id, 0, 200, "") EXCEPT
                             !.id = user_id, !.account_type = account_type,
                             !.default_profile_id =
                                 IF account_type = "personal"
                                 THEN Len(profiles) + 1 ELSE 0]

Signup ==
    /\ started /\ Len(profiles) < MaxProfiles
    /\ \E r \in SignupRequests : signup(r)
    /\ UNCHANGED <<started, model_college, pitches, issued, call_vars, conc_vars>>

\* POST /auth/login, lines 435-470
login(r) ==
    LET k == user_by_email(users, lower(r.email))
    IN  IF k = 0 \/ (k # 0 /\ users[k].password # r.password)
        THEN /\ sresp' = StoreResp("login", 0, 0, 401, "Invalid email or password")
             /\ UNCHANGED profiles
        ELSE LET user == users[k]
                 profile == first_profile(profiles, user.id)
             IN  IF user.account_type # "personal"
                 THEN /\ sresp' = [StoreResp("login", user.id, 0, 200, "") EXCEPT
                                      !.id = user.id,
                                      !.account_type = user.account_type]
                      /\ UNCHANGED profiles
                 ELSE IF profile # 0
                 THEN /\ sresp' = [StoreResp("login", user.id, 0, 200, "") EXCEPT
                                      !.id = user.id,
                                      !.account_type = user.account_type,
                                      !.default_profile_id = profile]
                      /\ UNCHANGED profiles
                 ELSE /\ profiles' = insert_profile(profiles, user.id)
                      /\ sresp' = [StoreResp("login", user.id, 0, 200, "") EXCEPT
                                      !.id = user.id,
                                      !.account_type = user.account_type,
                                      !.default_profile_id = Len(profiles) + 1]

Login ==
    /\ started /\ Len(profiles) < MaxProfiles
    /\ \E r \in LoginRequests : login(r)
    /\ UNCHANGED <<started, model_college, users, pitches, issued, call_vars,
                   conc_vars>>

\* GET /auth/me, lines 474-498.  The user row is read inside the with block;
\* the profile row is read after it, on the connection the block has closed.
\* The exception is caught by nothing in the handler.
get_me(sub) ==
    LET conn == conn_after_with
        found == sub \in 1..Len(users)
        profile == execute(conn, IF found THEN first_profile(profiles, sub) ELSE 0)
    IN  IF ~found
        THEN sresp' = StoreResp("get_me", sub, 0, 404, "User not found")
        ELSE IF users[sub].account_type = "personal"
        THEN IF profile.err # ""
             THEN sresp' = [StoreResp("get_me", sub, 0, 500, "Internal Server Error")
                               EXCEPT !.cause = profile.err]
             ELSE sresp' = [StoreResp("get_me", sub, 0, 200, "") EXCEPT
                               !.id = sub, !.account_type = "personal",
                               !.default_profile_id = profile.row]
        ELSE sresp' = [StoreResp("get_me", sub, 0, 200, "") EXCEPT
                          !.id = sub, !.account_type = users[sub].account_type]

GetMe ==
    /\ started
    /\ \E sub \in 1..Len(users) : get_me(sub)
    /\ UNCHANGED <<started, model_college, users, profiles, pitches, issued,
                   call_vars, conc_vars>>

\* POST /profiles, lines 519-535
create_profile(sub) ==
    /\ profiles' = insert_profile(profiles, sub)
    /\ sresp' = [StoreResp("create_profile", sub, 0, 201, "") EXCEPT
                    !.id = Len(profiles) + 1]

CreateProfile ==
    /\ started /\ Len(profiles) < MaxProfiles
    /\ \E sub \in 1..Len(users) : create_profile(sub)
    /\ UNCHANGED <<started, model_college, users, pitches, issued, call_vars,
                   conc_vars>>

\* SELECT user_id FROM profiles WHERE id = ?  (0 when there is no row)
profile_owner(ps, profile_id) ==
    IF profile_id \in 1..Len(ps) THEN ps[profile_id].user_id ELSE 0

\* A faulty variant of invalid_profile: only a missing profile is refused.
invalid_profile_missing_only(ps, profile_id, user_id) ==
    profile_owner(ps, profile_id) = 0

\* lines 706-710: not owner or owner["user_id"] != user_id
invalid_profile(ps, profile_id, user_id) ==
    \/ profile_owner(ps, profile_id) = 0
    \/ profile_owner(ps, profile_id) # user_id

\* POST /pitches, lines 690-727
save_pitch(sub, requested) ==
    LET pitch_id == issued + 1
        profile_id == IF requested = 0 THEN first_profile(profiles, sub)
                      ELSE requested
    IN  IF profile_id # 0 /\ invalid_profile(profiles, profile_id, sub)
        THEN /\ sresp' = StoreResp("save_pitch", sub, requested, 403, "Invalid profile")
             /\ UNCHANGED <<pitches, issued>>
        ELSE /\ pitches' = pitches \cup
                    {[id |-> pitch_id, user_id |-> sub, profile_id |-> profile_id]}
             /\ issued' = pitch_id
             /\ sresp' = [StoreResp("save_pitch", sub, requested, 201, "") EXCEPT
                             !.id = pitch_id, !.profile_id = profile_id]

SavePitch ==
    /\ started /\ issued < MaxPitches
    /\ \E sub \in 1..Len(users), requested \in 0..(MaxProfiles + 1) :
          save_pitch(sub, requested)
    /\ UNCHANGED <<started, model_college, users, profiles, call_vars, conc_vars>>

\* DELETE /pitches/{pitch_id}, lines 792-802
delete_pitch(sub, pitch_id) ==
    LET row == {pt \in pitches : pt.id = pitch_id /\ pt.user_id = sub}
    IN  IF row = {}
        THEN /\ sresp' = StoreResp("delete_pitch", sub, pitch_id, 404, "Pitch not found")
             /\ UNCHANGED pitches
        ELSE /\ pitches' = {pt \in pitches : ~(pt.id = pitch_id /\ pt.user_id = sub)}
             /\ sresp' = StoreResp("delete_pitch", sub, pitch_id, 204, "")

DeletePitch ==
    /\ started
    /\ \E sub \in 1..Len(users), pitch_id \in 1..MaxPitches :
          delete_pitch(sub, pitch_id)
    /\ UNCHANGED <<started, model_college, users, profiles, issued, call_vars,
                   conc_vars>>

NextStore ==
    \/ startup_event
    \/ Signup
    \/ Login
    \/ GetMe
    \/ CreateProfile
    \/ SavePitch
    \/ DeletePitch

SpecStore == Init /\ [][NextStore]_vars

(***************************************************************************)
(* Properties                                                              *)
(***************************************************************************)
InReportingRange(x) == Pt(60) <= x /\ x <= Pt(140)

\* a pipeline evaluation has just completed without an exception
Evaluated == trace.ran /\ trace.err = ""

\* POST /predict has answered 200
Scored == op = "predict" /\ pc = "responded" /\ resp.status = 200

\* C1: a successful score returns a stuff_plus within [60, 140], and so is every
\* value suggest compares (the baseline and each perturbed score).
C1_ClippingBounds ==
    /\ Scored => InReportingRange(resp.stuff_plus)
    /\ (op = "suggest" /\ i >= 1) =>
          /\ InReportingRange(baseline)
          /\ \A k \in 1..Len(scores) : InReportingRange(scores[k])

\* C1 witness: a score whose adjusted value lay above 140 was reported as 140.
C1_Witness ==
    /\ Scored
    /\ trace.adjusted_stuff > Pt(140)
    /\ resp.stuff_plus = Pt(140)

\* the mirror image of a measurement: hand flipped, horizontal break and
\* release-x negated, spin axis reflected, everything else unchanged
Mirror(m) ==
    [m EXCEPT !.p_throws = IF m.p_throws = "L" THEN "R" ELSE "L",
              !.pfx_x = -m.pfx_x,
              !.release_pos_x = -m.release_pos_x,
              !.spin_axis = 360 - m.spin_axis]

HasValidHand == op # "none" /\ req.p_throws \in {"R", "L"}

\* C2 as stated: between a measurement and its mirror the three
\* handedness-adjusted features differ at most in sign and the eight other
\* features, hmov_diff included, are equal.
C2_SymmetryAsStated ==
    HasValidHand =>
        LET f == feature_map(req)
            g == feature_map(Mirror(req))
        IN  /\ \A n \in {"adj_hmov", "adj_spin_axis", "adj_release_x"} :
                  g[n] = f[n] \/ g[n] = -f[n]
            /\ \A n \in {"release_speed", "pfx_z", "release_spin_rate",
                         "release_extension", "release_pos_z", "velo_diff",
                         "ivb_diff", "hmov_diff"} : g[n] = f[n]

\* C2 amended: between a measurement and its mirror the three
\* handedness-adjusted features are equal, the seven features that do not
\* involve the horizontal break are equal, and hmov_diff, which is taken from the
\* unadjusted pfx_x, becomes -hmov_diff - 2 * fb_hmov.
C2_SymmetryAmended ==
    HasValidHand =>
        LET f == feature_map(req)
            g == feature_map(Mirror(req))
        IN  /\ \A n \in {"adj_hmov", "adj_spin_axis", "adj_release_x"} : g[n] = f[n]
            /\ \A n \in {"release_speed", "pfx_z", "release_spin_rate",
                         "release_extension", "release_pos_z", "velo_diff",
                         "ivb_diff"} : g[n] = f[n]
            /\ g.hmov_diff = -f.hmov_diff - 2 * req.fb_hmov

\* C2 witness: a left-handed measurement with horizontal break was scored, and
\* its adjusted break is the negated one.
C2_Witness ==
    /\ Scored
    /\ req.p_throws = "L" /\ req.pfx_x # 0
    /\ feature_map(req).adj_hmov = -req.pfx_x
    /\ feature_map(req).hmov_diff # feature_map(Mirror(req)).hmov_diff

\* the penalty velocity_penalty gives the evaluated pitch at another velocity
PenaltyAt(v) ==
    velocity_penalty(trace.pitch_type, v, trace.pfx_z * 12, trace.raw_stuff).penalty

\* for FF and SI, a lower velocity below 93 has a strictly larger penalty until
\* the penalty is 30
PenaltyMonotone ==
    (Evaluated /\ trace.pitch_type \in {"FF", "SI"} /\ trace.release_speed < Pt(93)) =>
        \A v \in Speeds :
            v < trace.release_speed =>
                IF trace.penalty < Pt(30)
                THEN PenaltyAt(v) > trace.penalty
                ELSE PenaltyAt(v) = Pt(30) /\ trace.penalty = Pt(30)

\* C3 as stated: PenaltyMonotone, and for FF and SI the final index is never
\* lower than the calibrated index minus 30.
C3_PenaltyAsStated ==
    /\ PenaltyMonotone
    /\ (Evaluated /\ trace.pitch_type \in {"FF", "SI"}) =>
          trace.final_stuff >= trace.raw_stuff - Pt(30)

\* C3 amended: PenaltyMonotone, and for FF and SI the final index (final_stuff,
\* before it is rounded for the response) is never lower than the calibrated
\* index minus 30 at 90 mph and above, and never lower than
\* min(calibrated index, 105) minus 30 below 90 mph.
C3_PenaltyAmended ==
    /\ PenaltyMonotone
    /\ (Evaluated /\ trace.pitch_type \in {"FF", "SI"}) =>
          trace.final_stuff >=
              (IF trace.release_speed < Pt(90)
               THEN Min(trace.raw_stuff, Pt(105)) ELSE trace.raw_stuff) - Pt(30)

\* C3 witness: a fastball below 63 mph, calibrated above 105, got the full
\* 30-point penalty off the 105 cap.
C3_Witness ==
    /\ Evaluated
    /\ trace.pitch_type \in {"FF", "SI"}
    /\ trace.release_speed < Pt(63)
    /\ trace.raw_stuff > Pt(105)
    /\ trace.penalty = Pt(30)
    /\ trace.final_stuff = Pt(75)

\* POST /predict/suggest has answered 200, after the whole loop
Suggested ==
    op = "suggest" /\ pc = "responded" /\ resp.status = 200 /\ Len(scores) = Len(variations)

Improvement(k) == scores[k] - baseline

\* the greatest improvement over the catalog, and the first entry that has it
MaxImprovement ==
    CHOOSE x \in {Improvement(k) : k \in 1..Len(scores)} :
        \A k \in 1..Len(scores) : Improvement(k) <= x

FirstMax ==
    CHOOSE k \in 1..Len(scores) :
        /\ Improvement(k) = MaxImprovement
        /\ \A j \in 1..(k - 1) : Improvement(j) < MaxImprovement

\* the catalog order the tie-break refers to
CatalogOrder ==
    << "adding 1 mph", "adding 1in IVB", "subtracting 1in IVB", "adding 1in HB",
       "subtracting 1in HB", "subtracting 1 mph", "adding 100 rpm spin",
       "subtracting 100 rpm spin" >>

ReportsFirstMax ==
    /\ Len(variations) = Len(CatalogOrder)
    /\ (Suggested /\ resp.class = "try") =>
          /\ MaxImprovement > 0
          /\ resp.label = CatalogOrder[FirstMax]
          /\ resp.label = variations[FirstMax].label

\* C4 as stated: the reported perturbation has the greatest improvement of the
\* catalog, the earliest one in catalog order on a tie, and the reported delta
\* equals that greatest improvement.
C4_SelectionAsStated ==
    /\ ReportsFirstMax
    /\ (Suggested /\ resp.class = "try") => resp.delta = MaxImprovement

\* C4 amended: the reported perturbation has the greatest improvement of the
\* catalog, the earliest one in catalog order on a tie, and the reported delta
\* is that greatest improvement rounded to one decimal (format .1f).
C4_SelectionAmended ==
    /\ ReportsFirstMax
    /\ (Suggested /\ resp.class = "try") =>
          /\ resp.delta = RoundHalfEven1(MaxImprovement)
          /\ resp.delta - MaxImprovement \in -5..5

\* C4 witness: two perturbations tie at the greatest improvement and the earlier
\* one is reported.
C4_Witness ==
    /\ Suggested /\ resp.class = "try"
    /\ \E j, k \in 1..Len(scores) :
          /\ j < k
          /\ Improvement(j) = MaxImprovement
          /\ Improvement(k) = MaxImprovement
          /\ resp.label = variations[j].label

NoneImproves == \A k \in 1..Len(scores) : scores[k] <= baseline

\* C5 as stated: when no perturbation strictly improves the score, suggest sends
\* the "near optimal" message.
C5_NearOptimalAsStated ==
    (Suggested /\ NoneImproves) => resp.class = "near_optimal"

\* C5 amended: when no perturbation strictly improves the score (best
\* improvement still 0, no label), suggest sends the "looks strong" message,
\* which names no perturbation; the "try" message is sent only with a label and
\* a positive improvement.
C5_LooksStrongAmended ==
    /\ (Suggested /\ NoneImproves) =>
          /\ best_improvement = 0 /\ best_suggestion = "None"
          /\ resp.class = "looks_strong" /\ resp.label = ""
    /\ (Suggested /\ resp.class = "try") => (~NoneImproves /\ resp.label # "")

\* C5 witness: a suggestion request where nothing improved got "looks strong".
C5_Witness ==
    /\ Suggested /\ NoneImproves
    /\ resp.class = "looks_strong"

\* the reference velocity of a category's own row of the penalty table
OwnReference(pitch_type) ==
    IF pitch_type \in {"FF", "SI"} THEN Pt(93)
    ELSE IF pitch_type \in {"CU", "KC", "ST"} THEN Pt(75)
    ELSE IF pitch_type \in {"SL", "FC"} THEN Pt(82)
    ELSE Pt(78)

\* the penalty against a reference velocity, capped at 30
PenaltyAgainst(ref, v) == Min(Pt(30), Max(0, ref - v))

\* the evaluated pitch has more than 17 inches of vertical break
HighBreak == trace.pfx_z * 12 > Inches(17)

\* C6: a pitch of any labeled category with more than 17 inches of vertical
\* break is penalty-scored with the FF/SI rule (reference 93, 105 cap below 90);
\* with 17 inches or less it keeps its own category's reference, and only FF and
\* SI get the cap.
C6_Reclassification ==
    Evaluated =>
        IF HighBreak
        THEN /\ trace.penalty = PenaltyAgainst(Pt(93), trace.release_speed)
             /\ trace.capped_stuff =
                   IF trace.release_speed < Pt(90)
                   THEN Min(trace.raw_stuff, Pt(105)) ELSE trace.raw_stuff
        ELSE /\ trace.penalty =
                   PenaltyAgainst(OwnReference(trace.pitch_type), trace.release_speed)
             /\ trace.pitch_type \notin {"FF", "SI"} =>
                   trace.capped_stuff = trace.raw_stuff

\* C6 witness: a CU pitch with 18 inches of vertical break at 88 mph got the
\* penalty 93 - 88 = 5, where the CU row gives none.
C6_Witness ==
    /\ Scored
    /\ trace.pitch_type = "CU" /\ trace.pfx_z * 12 = Inches(18)
    /\ trace.release_speed = Pt(88)
    /\ trace.penalty = Pt(5)
    /\ PenaltyAgainst(OwnReference("CU"), trace.release_speed) = 0

\* the FF/SI rule applies to the evaluated pitch
FastballRule == HighBreak \/ trace.pitch_type \in {"FF", "SI"}

\* clip(I' - p, 60, 140) of the velocity adjuster, from the calibrated index I
AdjusterValue ==
    LET ref   == IF FastballRule THEN Pt(93) ELSE OwnReference(trace.pitch_type)
        p     == PenaltyAgainst(ref, trace.release_speed)
        Icap  == IF FastballRule /\ trace.release_speed < Pt(90)
                 THEN Min(trace.raw_stuff, Pt(105)) ELSE trace.raw_stuff
    IN  Clip(Icap - p, Pt(60), Pt(140))

\* C7 as stated: the value exposed by score equals clip(I' - p, 60, 140).
C7_AdjusterAsStated ==
    Scored => resp.stuff_plus = AdjusterValue

\* C7 amended: the value exposed by score equals clip(I' - p, 60, 140) rounded to
\* one decimal, with p and I' as stated; FF with I = 100 gives 100 at 95 mph and
\* 95 at 88 mph.
C7_AdjusterAmended ==
    /\ Scored => /\ resp.stuff_plus = RoundHalfEven1(AdjusterValue)
                 /\ resp.stuff_plus_raw = resp.stuff_plus
                 /\ resp.stuff_plus - AdjusterValue \in -5..5
    /\ (Scored /\ trace.pitch_type = "FF" /\ ~HighBreak /\ trace.raw_stuff = Pt(100)) =>
          /\ trace.release_speed = Pt(95) => resp.stuff_plus = Pt(100)
          /\ trace.release_speed = Pt(88) => resp.stuff_plus = Pt(95)

\* C7 witness: FF calibrated at 100 and thrown at 88 mph was scored 95.
C7_Witness ==
    /\ Scored
    /\ trace.pitch_type = "FF" /\ ~HighBreak
    /\ trace.raw_stuff = Pt(100) /\ trace.release_speed = Pt(88)
    /\ resp.stuff_plus = Pt(95)

\* the category of the evaluated pitch has its own entry in the profile
HasOwnEntry == \E e \in model_college.scalers : e.key = trace.pitch_type

\* the value the calibration formula gives for a (mean, scale) pair
CalibratedWith(mean, scale) ==
    Clip(Pt(100) + (1000 * (trace.raw_pred - mean)) \div scale, Pt(40), Pt(160))

\* C8: the calibrated index is clip(100 + 10 * (raw - mean) / scale, 40, 160) for
\* the category's own (mean, scale) when the profile has one and for the default
\* pair otherwise; it lies in [40, 160] and is 100 when raw equals the mean.
C8_Calibration ==
    Evaluated =>
        /\ \A e \in model_college.scalers :
              e.key = trace.pitch_type =>
                  /\ trace.raw_stuff = CalibratedWith(e.mean_, e.scale_)
                  /\ trace.raw_pred = e.mean_ => trace.raw_stuff = Pt(100)
        /\ ~HasOwnEntry =>
              /\ trace.raw_stuff = CalibratedWith(model_college.global_scaler.mean_,
                                                  model_college.global_scaler.scale_)
              /\ trace.raw_pred = model_college.global_scaler.mean_ =>
                    trace.raw_stuff = Pt(100)
        /\ Pt(40) <= trace.raw_stuff /\ trace.raw_stuff <= Pt(160)

\* C8 witness: a category with its own entry was calibrated with it, to a value
\* the default pair would not have given.
C8_Witness ==
    /\ Evaluated /\ HasOwnEntry
    /\ ~model_college.global_scaler.none
    /\ trace.raw_stuff # CalibratedWith(model_college.global_scaler.mean_,
                                        model_college.global_scaler.scale_)
    /\ trace.raw_stuff \notin {Pt(40), Pt(100), Pt(160)}

\* the regression scorer is not loaded: no model object, or one without a model
ScorerNotLoaded == model_college.none \/ model_college.model.none

\* C9: whenever the regression scorer is not loaded, score and suggest fail (for
\* a measurement with a valid category and hand) with the model-not-loaded
\* outcome (503, "Stuff+ model not loaded"), and no score is returned or
\* compared.
C9_ModelUnavailable ==
    (/\ pc = "responded" /\ ScorerNotLoaded
     /\ req.pitch_type \in valid_types /\ req.p_throws \in {"R", "L"}) =>
        /\ resp.status = 503 /\ resp.detail = "Stuff+ model not loaded"
        /\ resp.stuff_plus = 0 /\ resp.class = ""
        /\ scores = << >>

\* C10: with a model object loaded, a category outside the nine codes is
\* answered 400 "Invalid pitch type", and a valid category with a hand other
\* than R and L is answered 400 "p_throws must be 'R' or 'L'", by score and by
\* suggest, without any call of the scorer and without a score or a suggestion.
C10_Validation ==
    (pc = "responded" /\ ~model_college.none) =>
        /\ req.pitch_type \notin valid_types =>
              /\ resp.status = 400 /\ resp.detail = "Invalid pitch type"
        /\ (req.pitch_type \in valid_types /\ req.p_throws \notin {"R", "L"}) =>
              /\ resp.status = 400 /\ resp.detail = "p_throws must be 'R' or 'L'"
        /\ (req.pitch_type \notin valid_types \/ req.p_throws \notin {"R", "L"}) =>
              /\ calls = 0 /\ ~trace.ran
              /\ resp.stuff_plus = 0 /\ resp.class = "" /\ resp.label = ""
              /\ scores = << >>

\* C10 witness: a suggestion request with a valid category and the hand "S" was
\* refused before any evaluation.
C10_Witness ==
    /\ op = "suggest" /\ pc = "responded"
    /\ ~ScorerNotLoaded
    /\ req.pitch_type \in valid_types /\ req.p_throws = "S"
    /\ resp.status = 400 /\ calls = 0

\* what the caller of an endpoint sees of a response: the status and the detail;
\* str(e) is part of the detail of "Prediction failed: " only, an exception that
\* escapes the handler reaches the caller as a bare 500
CallerSees(r) ==
    [status |-> r.status, detail |-> r.detail,
     cause |-> IF r.detail = "Prediction failed: " THEN r.cause ELSE ""]

\* the response of POST /predict to a measurement, from the same checks and
\* pipeline
ScoreOutcome(mc, m) ==
    IF validate(mc, m).status # 0 THEN validate(mc, m)
    ELSE predict_response(pipeline(mc, m))

\* C11: suggest fails exactly when score fails on the same measurement and state,
\* and the caller sees the same failure from both.
C11_SameFailures ==
    (op = "suggest" /\ pc = "responded") =>
        LET s == ScoreOutcome(model_college, req)
        IN  /\ (resp.status # 200) <=> (s.status # 200)
            /\ resp.status # 200 => CallerSees(resp) = CallerSees(s)

\* the kind of the failure of the request being answered
FailureKind ==
    IF resp.status = 503 THEN "ModelUnavailable"
    ELSE IF resp.status = 400 /\ req.pitch_type \notin valid_types THEN "InvalidCategory"
    ELSE IF resp.status = 400 THEN "InvalidHandedness"
    ELSE IF trace.err = "Model must be trained before making predictions"
    THEN "ModelUnavailable"
    ELSE "CalibrationUnavailable"

\* the kind a caller can read off what it sees
KindSeen(seen) ==
    IF seen.status = 503 /\ seen.detail = "Stuff+ model not loaded" THEN "ModelUnavailable"
    ELSE IF seen.status = 400 /\ seen.detail = "Invalid pitch type" THEN "InvalidCategory"
    ELSE IF seen.status = 400 /\ seen.detail = "p_throws must be 'R' or 'L'"
    THEN "InvalidHandedness"
    ELSE IF seen.cause = "Model must be trained before making predictions"
    THEN "ModelUnavailable"
    ELSE IF seen.cause = "'NoneType' object has no attribute 'mean_'"
    THEN "CalibrationUnavailable"
    ELSE "unknown"

\* C12: every failure reaches the caller as an outcome that tells its kind among
\* ModelUnavailable, InvalidCategory, InvalidHandedness and
\* CalibrationUnavailable; a missing calibration is told apart from an unloaded
\* model.
C12_DistinctFailures ==
    (pc = "responded" /\ resp.status # 200) =>
        KindSeen(CallerSees(resp)) = FailureKind

\* C13: every successful score response carries velocity_penalty = 0, also when
\* a penalty was subtracted to obtain the index.
C13_PenaltyReportedZero ==
    Scored => resp.velocity_penalty = 0

\* C13 witness: a score from which a 5-point penalty was subtracted reports 0.
C13_Witness ==
    /\ Scored
    /\ trace.penalty = Pt(5)
    /\ trace.final_stuff = trace.raw_stuff - Pt(5)
    /\ resp.velocity_penalty = 0


\* the fields in which two measurements differ
ChangedFields(a, b) == {f \in DOMAIN a : a[f] # b[f]}

\* the four fields a perturbation may touch, with the two amounts stated for
\* each: mph in hundredths, break in twelfths of a foot, spin in rpm
StatedChanges ==
    { <<"release_speed", Pt(1)>>, <<"release_speed", -Pt(1)>>,
      <<"pfx_z", 1>>, <<"pfx_z", -1>>, <<"pfx_x", 1>>, <<"pfx_x", -1>>,
      <<"release_spin_rate", 100>>, <<"release_spin_rate", -100>> }

\* C15: each of the 8 perturbations of suggest changes exactly one measurement
\* field (release speed by +-1, pfx_z by +-1/12, pfx_x by +-1/12 or spin rate by
\* +-100) and leaves category, hand, extension, spin axis, release position and
\* the fastball reference triple unchanged, so velo_diff, ivb_diff and hmov_diff
\* move by the same amount as release speed, pfx_z and pfx_x; the measurement
\* the loop has just evaluated is that perturbed one.
C15_OneFieldPerturbed ==
    (op = "suggest" /\ pc = "suggest_loop") =>
        /\ Len(variations) = 8
        /\ \A k \in 1..Len(variations) :
              LET p  == perturbed(req, variations[k])
                  ch == ChangedFields(req, p)
                  fp == feature_map(p)
                  fr == feature_map(req)
              IN  /\ Cardinality(ch) = 1
                  /\ \A f \in ch : <<f, p[f] - req[f]>> \in StatedChanges
                  /\ \A f \in {"pitch_type", "p_throws", "release_extension",
                               "spin_axis", "release_pos_x", "release_pos_z",
                               "fb_velo", "fb_ivb", "fb_hmov"} : p[f] = req[f]
                  /\ fp.velo_diff - fr.velo_diff = p.release_speed - req.release_speed
                  /\ fp.ivb_diff - fr.ivb_diff = p.pfx_z - req.pfx_z
                  /\ fp.hmov_diff - fr.hmov_diff = p.pfx_x - req.pfx_x
        /\ (i >= 2 /\ trace.ran) =>
              /\ trace.release_speed = req.release_speed + variations[i - 1].mod_speed
              /\ trace.pfx_z = req.pfx_z + variations[i - 1].mod_pfx_z
              /\ trace.pitch_type = req.pitch_type

\* C15 witness: the loop has just evaluated the second perturbation, pfx_z one
\* twelfth of a foot above the request's.
C15_Witness ==
    /\ op = "suggest" /\ pc = "suggest_loop" /\ i = 3
    /\ trace.ran /\ trace.err = ""
    /\ trace.pfx_z = req.pfx_z + 1
    /\ trace.release_speed = req.release_speed

\* C16: at every step of the scan best_suggestion is set if and only if
\* best_improvement > 0, and best_improvement is never negative; the "near
\* optimal" message is never sent, and "looks strong" is sent exactly when no
\* perturbation scores strictly above the baseline, in particular whenever the
\* baseline is at the ceiling 140.
C16_ScanInvariant ==
    /\ op = "suggest" =>
          /\ Truthy(best_suggestion) <=> best_improvement > 0
          /\ best_improvement >= 0
          /\ \A k \in 1..Len(scores) : Improvement(k) <= best_improvement
    /\ resp.class # "near_optimal"
    /\ Suggested => (resp.class = "looks_strong" <=> NoneImproves)
    /\ (Suggested /\ baseline = Pt(140)) => resp.class = "looks_strong"

\* C16 witness: a suggestion request whose baseline is at the ceiling got
\* "looks strong".
C16_Witness ==
    /\ Suggested /\ baseline = Pt(140)
    /\ best_suggestion = "None" /\ best_improvement = 0
    /\ resp.class = "looks_strong"

\* a second witness state of the scan: midway through the catalog a label is
\* held with a positive improvement
ScanHoldsLabel ==
    /\ op = "suggest" /\ pc = "suggest_loop" /\ i \in 2..Len(variations)
    /\ Truthy(best_suggestion) /\ best_improvement > 0


\* the second call's response agrees with the one its request got run alone
SameAsAlone ==
    (other.resp.status # 0 /\ alone[other.req].status # 0) =>
        other.resp = alone[other.req]

\* C14: once the model and calibration are loaded at startup no score or
\* suggest call changes them, and under any interleaving of a score call with
\* the steps of a suggest call the result of score(m) equals the result of
\* score(m) run alone, whichever of the two ran first.
C14_CallIndependence ==
    [][ /\ started => model_college' = model_college
        /\ SameAsAlone' ]_vars

\* C14 witness: a score call served in the middle of a suggestion scan returned
\* a value, and the same request had been scored alone.
C14_Witness ==
    /\ pc = "suggest_loop" /\ i \in 3..Len(variations)
    /\ other.during = "suggest_loop"
    /\ other.resp.status = 200
    /\ alone[other.req].status = 200
    /\ other.req # req


\* every stored pitch with a profile refers to a profile of the pitch's user
Ownership ==
    \A pt \in pitches :
        pt.profile_id # 0 =>
            \E k \in 1..Len(profiles) :
                profiles[k].id = pt.profile_id /\ profiles[k].user_id = pt.user_id

\* the pitches of the users other than u
PitchesOfOthers(pts, u) == {pt \in pts : pt.user_id # u}

\* C17: after any sequence of signup, login, create_profile, save_pitch and
\* delete_pitch calls (and restarts) every stored pitch with a non-null
\* profile_id refers to a profile owned by the pitch's own user; save_pitch
\* answers 403 to a profile of another user and then stores nothing; delete_pitch
\* removes at most the named pitch of the caller and leaves all other users'
\* pitches unchanged.
C17_PitchOwnership ==
    [][ /\ Ownership'
        /\ (sresp'.op = "save_pitch" /\ sresp'.arg # 0
              /\ profile_owner(profiles, sresp'.arg) # sresp'.caller)
               => (sresp'.status = 403 /\ pitches' = pitches /\ issued' = issued)
        /\ (sresp'.op = "save_pitch" /\ sresp'.status = 403) => pitches' = pitches
        /\ sresp'.op = "delete_pitch" =>
              /\ pitches' \subseteq pitches
              /\ \A pt \in pitches \ pitches' :
                    pt.user_id = sresp'.caller /\ pt.id = sresp'.arg
              /\ PitchesOfOthers(pitches', sresp'.caller)
                    = PitchesOfOthers(pitches, sresp'.caller)
              /\ sresp'.status = 204 <=> pitches' # pitches ]_vars

\* C17 witness: a user holding a pitch under an own profile was refused, with
\* 403, a save under a profile of another user.
C17_Witness ==
    /\ sresp.op = "save_pitch" /\ sresp.status = 403
    /\ profile_owner(profiles, sresp.arg) \notin {0, sresp.caller}
    /\ \E pt \in pitches : pt.user_id = sresp.caller /\ pt.profile_id # 0

\* a second witness state of storage: a delete by a user who does not own the
\* pitch was answered 404 and the pitch is still stored
ForeignDeleteRefused ==
    /\ sresp.op = "delete_pitch" /\ sresp.status = 404
    /\ \E pt \in pitches : pt.id = sresp.arg /\ pt.user_id # sresp.caller

\* C18: for an existing user with a personal account and a valid token, get_me
\* succeeds and returns default_profile_id equal to the id of that user's
\* earliest-created profile, the profile lookup being made on a connection
\* that is still open.
C18_GetMeDefaultProfile ==
    (sresp.op = "get_me" /\ sresp.caller \in 1..Len(users)
       /\ users[sresp.caller].account_type = "personal") =>
          /\ sresp.status = 200
          /\ sresp.cause # "Cannot operate on a closed database."
          /\ sresp.default_profile_id # 0
          /\ sresp.default_profile_id = first_profile(profiles, sresp.caller)

=============================================================================
